---- MODULE Spec2Model ----
(***************************************************************************)
(* Model of the adaptive spaced-repetition function of StudyForge          *)
(* (supabase/functions/adaptive-srs/index.ts): the request handler, the    *)
(* spaced_items / progress_logs tables it reads and writes, and the pure   *)
(* functions analyzePerformance, calculateVariance,                        *)
(* calculateAdaptiveInterval and calculateEaseFactor.                      *)
(*                                                                         *)
(* Specifications.  Spec: requests for any (user, concept) pairs,          *)
(* interleaved in every way.  SpecSeq: the same handler, one request at a  *)
(* time.  SpecSchedule: the two scheduling functions on a grid of analyses *)
(* and previous rows.  SpecAnalyze: analyzePerformance, then the           *)
(* scheduling functions, on every history over a set of events.            *)
(*                                                                         *)
(* Numbers.  JavaScript numbers are modelled as exact rationals            *)
(* [n |-> numerator, d |-> denominator], always in lowest terms with       *)
(* d > 0.  The record with d = 0 stands for null / undefined.              *)
(* Math.sqrt is modelled exactly: its result is the record [sq |-> v],     *)
(* the non-negative real whose square is v, and it is compared with a      *)
(* non-negative threshold t by comparing v with t * t.                     *)
(* Instants are [day, ms] with 0 <= ms < DayMs, standing for the           *)
(* millisecond count day * DayMs + ms.                                     *)
(***************************************************************************)
EXTENDS Integers, Sequences, FiniteSets, TLC

(***************************************************************************)
(* Exact rational arithmetic                                               *)
(***************************************************************************)
Abs(x) == IF x < 0 THEN -x ELSE x

RECURSIVE GCD(_, _)
GCD(a, b) == IF b = 0 THEN a ELSE GCD(b, a % b)

\* the rational a/b (b # 0) in lowest terms
Q(a, b) ==
    LET g == GCD(Abs(a), Abs(b))
        s == IF b < 0 THEN -1 ELSE 1
    IN  [n |-> (s * a) \div g, d |-> (s * b) \div g]

I(k) == [n |-> k, d |-> 1]

Null == [n |-> 0, d |-> 0]

Add(x, y) == Q(x.n * y.d + y.n * x.d, x.d * y.d)
Sub(x, y) == Q(x.n * y.d - y.n * x.d, x.d * y.d)
Mul(x, y) == Q(x.n * y.n, x.d * y.d)
Div(x, y) == Q(x.n * y.d, x.d * y.n)
Lt(x, y)  == x.n * y.d < y.n * x.d
Le(x, y)  == x.n * y.d <= y.n * x.d
Gt(x, y)  == Lt(y, x)
Ge(x, y)  == Le(y, x)

\* Math.max / Math.min on two numbers
Max(x, y) == IF Lt(x, y) THEN y ELSE x
Min(x, y) == IF Lt(y, x) THEN y ELSE x

\* Math.round: the integer nearest to x, ties towards +infinity
Round(x) == (2 * x.n + x.d) \div (2 * x.d)

\* JavaScript  v || dflt  on a nullable number: null, undefined and 0 are falsy
OrElse(v, dflt) == IF v.d = 0 \/ v.n = 0 THEN dflt ELSE v

\* Math.sqrt(v), v >= 0
Sqrt(v) == [sq |-> v]
\* Math.sqrt(v) > t  and  Math.sqrt(v) < t  for a threshold t >= 0
SqrtGt(s, t) == Gt(s.sq, Mul(t, t))
SqrtLt(s, t) == Lt(s.sq, Mul(t, t))

\* values.reduce((sum, val) => sum + val, 0)
RECURSIVE Sum(_)
Sum(values) == IF values = << >> THEN I(0) ELSE Add(Head(values), Sum(Tail(values)))

\* SliceFrom starting one element early: slice(from - 1)
SliceFromOffByOne(s, from) == IF Len(s) < from THEN << >> ELSE SubSeq(s, from, Len(s))

\* SliceTo that keeps the whole array: slice(0)
SliceToWhole(s, to) == s

\* Array.prototype.slice(from) and slice(0, to), 0-based as in the source
SliceFrom(s, from) == IF Len(s) <= from THEN << >> ELSE SubSeq(s, from + 1, Len(s))
SliceTo(s, to)     == IF Len(s) <= to THEN s ELSE SubSeq(s, 1, to)

(***************************************************************************)
(* Performance analysis (index.ts 112-157)                                 *)
(***************************************************************************)
RecentWindow == 5

calculateVariance(values) ==
    LET mean     == Div(Sum(values), I(Len(values)))
        \* Math.pow(val - mean, 2)
        sqdev    == [i \in 1..Len(values) |->
                        Mul(Sub(values[i], mean), Sub(values[i], mean))]
        variance == Div(Sum(sqdev), I(Len(values)))
    IN  Sqrt(variance)

\* ClampScore with the lower bound at 0: Math.max(0, Math.min(1.0, overall_score))
ClampScoreZeroFloor(overall_score) == Max(I(0), Min(I(1), overall_score))

\* ClampScore without the lower bound: Math.min(1.0, overall_score)
ClampScoreNoFloor(overall_score) == Min(I(1), overall_score)

\* Math.max(0.1, Math.min(1.0, overall_score))
ClampScore(overall_score) == Max(Q(1, 10), Min(I(1), overall_score))

\* (recent_correctness * 0.6) + (recent_confidence / 5 * 0.3) + (time_efficiency / 2 * 0.1)
overallScoreOf(recent_correctness, recent_confidence, time_efficiency) ==
    Add(Add(Mul(recent_correctness, Q(6, 10)),
            Mul(Div(recent_confidence, I(5)), Q(3, 10))),
        Mul(Div(time_efficiency, I(2)), Q(1, 10)))

analyzePerformance(performanceHistory) ==
    IF Len(performanceHistory) = 0
    THEN [overall_score        |-> Q(5, 10),
          confidence_trend     |-> "neutral",
          time_efficiency      |-> I(1),
          recent_correctness   |-> Q(5, 10),
          average_confidence   |-> I(3),
          performance_variance |-> Sqrt(I(0))]
    ELSE
    LET recent == SliceTo(performanceHistory, RecentWindow)
        older  == SliceFrom(performanceHistory, RecentWindow)
        \* s.reduce((sum, p) => sum + (p.<field> || <default>), 0)
        sumCorrect(s) == Sum([i \in 1..Len(s) |-> OrElse(s[i].correctness, I(0))])
        sumConf(s)    == Sum([i \in 1..Len(s) |-> OrElse(s[i].confidence_after, I(3))])
        sumTime(s)    == Sum([i \in 1..Len(s) |-> OrElse(s[i].time_taken_minutes, I(30))])
        recent_correctness == Div(sumCorrect(recent), I(Len(recent)))
        older_correctness  == IF Len(older) > 0
                              THEN Div(sumCorrect(older), I(Len(older)))
                              ELSE recent_correctness
        recent_confidence  == Div(sumConf(recent), I(Len(recent)))
        older_confidence   == IF Len(older) > 0
                              THEN Div(sumConf(older), I(Len(older)))
                              ELSE recent_confidence
        confidence_trend   == IF Gt(recent_confidence, older_confidence) THEN "improving"
                              ELSE IF Lt(recent_confidence, older_confidence) THEN "declining"
                              ELSE "stable"
        average_time       == Div(sumTime(recent), I(Len(recent)))
        time_efficiency    == Max(Q(1, 10), Min(I(2), Div(I(60), Max(average_time, I(1)))))
        overall_score      == overallScoreOf(recent_correctness, recent_confidence,
                                             time_efficiency)
    IN  [overall_score        |-> ClampScore(overall_score),
         confidence_trend     |-> confidence_trend,
         time_efficiency      |-> time_efficiency,
         recent_correctness   |-> recent_correctness,
         average_confidence   |-> recent_confidence,
         performance_variance |->
             calculateVariance([i \in 1..Len(performanceHistory) |->
                                   OrElse(performanceHistory[i].correctness, I(0))])]

(***************************************************************************)
(* Scheduling (index.ts 159-225).  currentItem is the result of            *)
(* .single(): << >> for null, <<row>> for the row found.                   *)
(***************************************************************************)
\* baseIntervalOf reading the wrong column: currentItem?.repetitions || 1
baseIntervalOfRepetitions(currentItem) ==
    IF currentItem = << >> \/ currentItem[1].repetitions = 0
    THEN 1 ELSE currentItem[1].repetitions

\* currentItem?.interval_days || 1
baseIntervalOf(currentItem) ==
    IF currentItem = << >> \/ currentItem[1].interval_days = 0
    THEN 1 ELSE currentItem[1].interval_days

\* the score tier of calculateAdaptiveInterval (index.ts 168-180)
TierInterval(baseInterval, performance) ==
    IF Ge(performance, Q(8, 10))
    THEN Min(Mul(I(baseInterval),
                 Add(Q(25, 10), Mul(Sub(performance, Q(8, 10)), I(2)))), I(30))
    ELSE IF Ge(performance, Q(6, 10))
    THEN Mul(I(baseInterval), Add(Q(15, 10), Mul(Sub(performance, Q(6, 10)), Q(15, 10))))
    ELSE IF Ge(performance, Q(4, 10))
    THEN Mul(I(baseInterval), Add(I(1), Mul(Sub(performance, Q(4, 10)), Q(5, 10))))
    ELSE Max(I(1), Mul(I(baseInterval), Add(Q(5, 10), Mul(performance, Q(5, 10)))))

TrendFactor(trend) ==
    IF trend = "improving" THEN Q(12, 10)
    ELSE IF trend = "declining" THEN Q(8, 10)
    ELSE I(1)

VarianceFactor(variance) ==
    IF SqrtGt(variance, Q(3, 10)) THEN Q(7, 10)
    ELSE IF SqrtLt(variance, Q(1, 10)) THEN Q(11, 10)
    ELSE I(1)

\* ClampTimeEfficiency without the lower bound: Math.min(1.5, time_efficiency)
ClampTimeEfficiencyNoFloor(te) == Min(Q(15, 10), te)

\* Math.max(0.8, Math.min(1.5, analysis.time_efficiency))
ClampTimeEfficiency(te) == Max(Q(8, 10), Min(Q(15, 10), te))

\* FinalInterval without the lower bound: Math.min(30, Math.round(newInterval))
FinalIntervalNoFloor(newInterval) ==
    LET r == Round(newInterval) IN IF r > 30 THEN 30 ELSE r

\* Math.max(1, Math.min(30, Math.round(newInterval)))
FinalInterval(newInterval) ==
    LET r == Round(newInterval)
        m == IF r > 30 THEN 30 ELSE r
    IN  IF m < 1 THEN 1 ELSE m

\* newInterval before the last line of calculateAdaptiveInterval (index.ts 160-199)
newIntervalOf(analysis, currentItem) ==
    LET baseInterval == baseIntervalOf(currentItem)
        performance  == analysis.overall_score
        trend        == analysis.confidence_trend
        variance     == analysis.performance_variance
        tiered       == TierInterval(baseInterval, performance)
        trended      == Mul(tiered, TrendFactor(trend))
        varied       == Mul(trended, VarianceFactor(variance))
    IN  Mul(varied, ClampTimeEfficiency(analysis.time_efficiency))

calculateAdaptiveInterval(analysis, currentItem) ==
    FinalInterval(newIntervalOf(analysis, currentItem))

\* ClampEase without the upper bound: Math.max(1.3, easeFactor)
ClampEaseNoCeiling(easeFactor) == Max(Q(13, 10), easeFactor)

\* Math.max(1.3, Math.min(3.0, easeFactor))
ClampEase(easeFactor) == Max(Q(13, 10), Min(I(3), easeFactor))

\* calculateEaseFactor with  else  for  else if (trend === 'declining'):
\* every trend other than improving lowers the ease factor
calculateEaseFactorElseDeclining(analysis) ==
    LET performance == analysis.overall_score
        trend       == analysis.confidence_trend
        tier  == IF Ge(performance, Q(8, 10))
                 THEN Add(Q(28, 10), Mul(Sub(performance, Q(8, 10)), Q(5, 10)))
                 ELSE IF Ge(performance, Q(6, 10))
                 THEN Add(Q(25, 10), Mul(Sub(performance, Q(6, 10)), Q(3, 10)))
                 ELSE IF Lt(performance, Q(4, 10))
                 THEN Max(Q(13, 10), Sub(Q(25, 10), Mul(Sub(Q(4, 10), performance), I(2))))
                 ELSE Q(25, 10)
        easeFactor == IF trend = "improving" THEN Add(tier, Q(1, 10))
                      ELSE Sub(tier, Q(1, 10))
    IN  ClampEase(easeFactor)

\* calculateEaseFactor with  >  for  >=  at the tier bounds 0.8 and 0.6
calculateEaseFactorStrictTiers(analysis) ==
    LET performance == analysis.overall_score
        trend       == analysis.confidence_trend
        tier  == IF Gt(performance, Q(8, 10))
                 THEN Add(Q(28, 10), Mul(Sub(performance, Q(8, 10)), Q(5, 10)))
                 ELSE IF Gt(performance, Q(6, 10))
                 THEN Add(Q(25, 10), Mul(Sub(performance, Q(6, 10)), Q(3, 10)))
                 ELSE IF Lt(performance, Q(4, 10))
                 THEN Max(Q(13, 10), Sub(Q(25, 10), Mul(Sub(Q(4, 10), performance), I(2))))
                 ELSE Q(25, 10)
        easeFactor == IF trend = "improving" THEN Add(tier, Q(1, 10))
                      ELSE IF trend = "declining" THEN Sub(tier, Q(1, 10))
                      ELSE tier
    IN  ClampEase(easeFactor)

calculateEaseFactor(analysis) ==
    LET performance == analysis.overall_score
        trend       == analysis.confidence_trend
        tier  == IF Ge(performance, Q(8, 10))
                 THEN Add(Q(28, 10), Mul(Sub(performance, Q(8, 10)), Q(5, 10)))
                 ELSE IF Ge(performance, Q(6, 10))
                 THEN Add(Q(25, 10), Mul(Sub(performance, Q(6, 10)), Q(3, 10)))
                 ELSE IF Lt(performance, Q(4, 10))
                 THEN Max(Q(13, 10), Sub(Q(25, 10), Mul(Sub(Q(4, 10), performance), I(2))))
                 ELSE Q(25, 10)
        easeFactor == IF trend = "improving" THEN Add(tier, Q(1, 10))
                      ELSE IF trend = "declining" THEN Sub(tier, Q(1, 10))
                      ELSE tier
    IN  ClampEase(easeFactor)

(***************************************************************************)
(* Bounds of the model                                                     *)
(***************************************************************************)
MaxReviews   == 3    \* reviews written or under way in one behaviour
MaxLogged    == 1    \* rows of progress_logs in the handler runs
MaxClockMs   == 1    \* milliseconds the clock may advance in one behaviour
MaxEvents    == 6    \* length of the histories given to analyzePerformance alone
MaxSyncRuns  == 2    \* runs of syncOfflineData that get past the isSyncing test
MaxSlots     == 3    \* slots of findAvailableSlots that the model keeps

(***************************************************************************)
(* Program constants                                                       *)
(***************************************************************************)
HistoryLimit == 20          \* .limit(20)
DayMs        == 86400000    \* 24 * 60 * 60 * 1000

Requests == {1, 2}
Users    == {"u1", "u2"}
Concepts == {"c1"}
Topics   == {"algebra"}
Pairs    == Users \X Concepts

(***************************************************************************)
(* Review events (rows of progress_logs)                                   *)
(***************************************************************************)
Event(c, conf, t) == [correctness |-> c, confidence_after |-> conf, time_taken_minutes |-> t]

EvGood      == Event(I(1), I(5), I(30))
EvBad       == Event(I(0), I(1), I(120))
EvMid       == Event(Q(1, 2), Null, Null)          \* confidence and time absent
EvSlow      == Event(Q(3, 4), I(4), I(600))
EvMalformed == Event(Q(3, 2), I(5), I(30))      \* correctness = 1.5

\* the declared domains of a ReviewEvent's fields, for the fields present
WellFormed(e) ==
    /\ e.correctness.d # 0 => (Ge(e.correctness, I(0)) /\ Le(e.correctness, I(1)))
    /\ e.confidence_after.d # 0 => (e.confidence_after.d = 1 /\ e.confidence_after.n \in 1..5)
    /\ e.time_taken_minutes.d # 0 => Gt(e.time_taken_minutes, I(0))

AllWellFormed(h) == \A i \in 1..Len(h) : WellFormed(h[i])

LoggedEvents  == {EvGood}
AnalyzeEvents == {EvGood, EvBad, EvMid, EvSlow, EvMalformed}

(***************************************************************************)
(* Instants                                                                *)
(***************************************************************************)
Epoch == [day |-> 0, ms |-> 0]

\* t + k milliseconds
AddMs(t, k) == [day |-> t.day + (t.ms + k) \div DayMs, ms |-> (t.ms + k) % DayMs]
\* t + days * 24 * 60 * 60 * 1000 milliseconds
AddDays(t, days) == [day |-> t.day + days, ms |-> t.ms]

\* what Date.now() / new Date() may return when the clock last showed t
ClockReadings(t) == {AddMs(t, k) : k \in 0..(MaxClockMs - t.ms)}

(***************************************************************************)
(* Values of the request handler                                           *)
(***************************************************************************)
NoError   == [code |-> "", message |-> ""]
NoRows    == [code |-> "PGRST116", message |-> "JSON object requested, multiple (or no) rows returned"]
DbFailure == [code |-> "08006", message |-> "connection failure"]

NoAnalysis == [overall_score        |-> Null,
               confidence_trend     |-> "",
               time_efficiency      |-> Null,
               recent_correctness   |-> Null,
               average_confidence   |-> Null,
               performance_variance |-> Sqrt(Null)]

\* a handler invocation: where it stands and its local variables
IdleRequest == [pc |-> "idle", user_id |-> "", concept_id |-> "", topic |-> "",
                performanceHistory |-> << >>, perfError |-> NoError,
                analysis |-> NoAnalysis,
                currentItem |-> << >>, itemError |-> NoError,
                spacedItemData |-> << >>]

\* a response, with what the invocation that sent it met: the errors the
\* database reported to it and the number of rows it wrote
NoResponse == [status |-> 0, error |-> "", spaced_item |-> << >>,
               perfError |-> NoError, itemError |-> NoError,
               updateError |-> NoError, writes |-> 0]

VARIABLES
    progress_logs,   \* [Pairs -> rows of progress_logs, created_at descending]
    spaced_items,    \* [Pairs -> rows of spaced_items with that user_id, concept_id]
    req,             \* [Requests -> the handler invocation running in that slot]
    sent,            \* the response that the last step sent, NoResponse if it sent none
    clock,           \* the last reading of the wall clock
    reviews,         \* [Pairs -> number of requests answered with success: true]
    hist, an, item, out, phase,  \* inputs and results of the functions run alone
    study_rooms,         \* the row of study_rooms with the room's id, NoRoom if none
    room_participants,   \* the user_id of the rows of room_participants of that room
    roomReq,             \* [RoomUsers -> the peer-study-rooms request of that user]
    isSyncing,           \* SyncManager.isSyncing
    pendingSync,         \* [OpIds -> status of the record of the pendingSync store]
    offlineActions,      \* [ActionIds -> status of the record of the offlineActions store]
    syncRun,             \* [SyncCallers -> the syncOfflineData call made that way]
    syncStarted,         \* the number of runs that have set isSyncing
    syncLog,             \* what the last run that ended wrote to the console
    delivered,           \* [ActionIds -> executeOfflineAction has succeeded for it]
    resent,              \* [ActionIds -> it was sent again after it was delivered]
    slotIn,              \* the arguments of findAvailableSlots
    slotPc,              \* where findAvailableSlots stands
    sortedEvents,        \* the events the for loop has not finished with
    currentTime,         \* currentTime, in minutes
    remainingGap,        \* remainingGap / remaining of the while loop being run
    slots,               \* the slots pushed (the first MaxSlots of them)
    pushed               \* slots.length, counted modulo MaxSlots + 1

srsVars  == <<progress_logs, spaced_items, req, sent, clock, reviews>>
pureVars == <<hist, an, item, out, phase>>
roomVars == <<study_rooms, room_participants, roomReq>>
syncVars == <<isSyncing, pendingSync, offlineActions, syncRun, syncStarted, syncLog,
              delivered, resent>>
slotVars == <<slotIn, slotPc, sortedEvents, currentTime, remainingGap, slots, pushed>>
appVars  == <<roomVars, syncVars, slotVars>>
vars     == <<progress_logs, spaced_items, req, sent, clock, reviews,
              hist, an, item, out, phase,
              study_rooms, room_participants, roomReq,
              isSyncing, pendingSync, offlineActions, syncRun, syncStarted, syncLog,
              delivered, resent,
              slotIn, slotPc, sortedEvents, currentTime, remainingGap, slots, pushed>>

\* PairOf without .eq('user_id', user.id): the concept's rows of the first user
PairOfAnyUser(r) == <<"u1", req[r].concept_id>>

\* the key of the rows a request selects and writes: .eq('user_id', user.id)
\* .eq('concept_id', concept_id), and the user_id, concept_id of spacedItemData
PairOf(r) == <<req[r].user_id, req[r].concept_id>>

RECURSIVE SumOver(_, _)
SumOver(f, S) ==
    IF S = {} THEN 0 ELSE LET x == CHOOSE y \in S : TRUE IN f[x] + SumOver(f, S \ {x})

\* the rows of progress_logs
Logged   == SumOver([p \in Pairs |-> Len(progress_logs[p])], Pairs)
\* the reviews written so far, and the requests that may still write one
Written  == SumOver(reviews, Pairs)
UnderWay == Cardinality({r \in Requests : req[r].pc # "idle"})

\* .limit(n)
Limit(rows, n) == SliceTo(rows, n)

\* single answering from before any write: no row
singleStale(rows) == [data |-> << >>, error |-> NoRows]

\* .single(): the row when exactly one matches, else error PGRST116
single(rows) ==
    IF Len(rows) = 1 THEN [data |-> rows, error |-> NoError]
    ELSE [data |-> << >>, error |-> NoRows]

\* upsert as a plain .insert(data): a further row of that key
upsertInsert(rows, data) == rows \o <<data>>

\* .upsert(data, { onConflict: 'user_id,concept_id' }) on the rows of that key
upsert(rows, data) ==
    IF Len(rows) = 0 THEN <<data>> ELSE [i \in 1..Len(rows) |-> data]

\* if (perfError) throw                                   (index.ts 41)
PerfErrorThrows(perfError) == perfError # NoError
\* the test of index.ts 57 never throwing
ItemErrorNeverThrows(itemError) == FALSE

\* if (itemError && itemError.code !== 'PGRST116') throw  (index.ts 57)
ItemErrorThrows(itemError) == itemError # NoError /\ itemError.code # "PGRST116"
\* if (updateError) throw                                 (index.ts 82)
UpdateErrorThrows(updateError) == updateError # NoError

\* catch (error): status 500 with error.message           (index.ts 102-108)
Catch(message) == [NoResponse EXCEPT !.status = 500, !.error = message]

\* nextRepetitions that forgets the row read: 0 + 1
nextRepetitionsFromZero(currentItem) == 1

\* (currentItem?.repetitions || 0) + 1                    (index.ts 72)
nextRepetitions(currentItem) ==
    (IF currentItem = << >> THEN 0 ELSE currentItem[1].repetitions) + 1

\* the row built at index.ts 65-74; now1 and now2 are the two readings of the clock
spacedItemDataOf(rq, adaptiveInterval, now1, now2) ==
    [user_id       |-> rq.user_id,
     concept_id    |-> rq.concept_id,
     concept_title |-> rq.topic,
     next_review   |-> AddDays(now1, adaptiveInterval),
     ease_factor   |-> calculateEaseFactor(rq.analysis),
     interval_days |-> adaptiveInterval,
     repetitions   |-> nextRepetitions(rq.currentItem),
     last_reviewed |-> now2]

(***************************************************************************)
(* The request handler (index.ts 10-109).  The handler runs from one await *)
(* to the next without interruption, so there is one action per answer of  *)
(* the database: the answer, and the handler's code up to the next query.  *)
(* A request takes the lowest free slot.                                   *)
(***************************************************************************)
FreeSlot(r) ==
    /\ req[r].pc = "idle"
    /\ \A q \in Requests : q < r => req[q].pc # "idle"

\* an OPTIONS request, or one that fails authorization         (10-28)
Refuse(r) ==
    /\ FreeSlot(r)
    /\ \E how \in {"options", "noheader", "unauthorized"} :
         sent' = IF how = "options" THEN [NoResponse EXCEPT !.status = 200]
                 ELSE IF how = "noheader" THEN Catch("No authorization header")
                 ELSE Catch("Unauthorized")
    /\ UNCHANGED <<progress_logs, spaced_items, req, clock, reviews>>

\* an authorized request: the progress_logs query answers, the history is
\* analysed and the spaced_items query is issued              (22-55)
FetchHistory(r) ==
    /\ FreeSlot(r)
    /\ UnderWay + Written < MaxReviews
    /\ \E u \in Users, c \in Concepts, t \in Topics, perfError \in {NoError, DbFailure} :
         LET data == IF perfError = NoError
                     THEN Limit(progress_logs[<<u, c>>], HistoryLimit) ELSE << >>
         IN  IF PerfErrorThrows(perfError)
             THEN /\ req'  = req
                  /\ sent' = [Catch("Failed to fetch performance history")
                                 EXCEPT !.perfError = perfError]
             ELSE /\ req'  = [req EXCEPT ![r] = [IdleRequest EXCEPT !.pc = "get",
                                 !.user_id = u, !.concept_id = c, !.topic = t,
                                 !.perfError = perfError,
                                 !.performanceHistory = data,
                                 !.analysis = analyzePerformance(data)]]
                  /\ sent' = NoResponse
    /\ UNCHANGED <<progress_logs, spaced_items, clock, reviews>>

\* the spaced_items query answers; the handler builds spacedItemData and
\* issues the upsert                                           (50-80)
GetItem(r) ==
    /\ req[r].pc = "get"
    /\ \E fails \in BOOLEAN :
         LET res == IF fails THEN [data |-> << >>, error |-> DbFailure]
                    ELSE single(spaced_items[PairOf(r)])
             rq  == [req[r] EXCEPT !.currentItem = res.data, !.itemError = res.error]
             adaptiveInterval == calculateAdaptiveInterval(rq.analysis, rq.currentItem)
         IN  IF ItemErrorThrows(res.error)
             THEN /\ req'   = [req EXCEPT ![r] = IdleRequest]
                  /\ sent'  = [Catch("Failed to fetch current spaced item")
                                  EXCEPT !.itemError = res.error]
                  /\ clock' = clock
             ELSE \E now1 \in ClockReadings(clock) : \E now2 \in ClockReadings(now1) :
                  /\ clock' = now2
                  /\ sent'  = NoResponse
                  /\ req'   = [req EXCEPT ![r] = [rq EXCEPT !.pc = "upsert",
                                  !.spacedItemData =
                                      <<spacedItemDataOf(rq, adaptiveInterval, now1, now2)>>]]
    /\ UNCHANGED <<progress_logs, spaced_items, reviews>>

\* the upsert answers and the response is sent                 (76-108)
Upsert(r) ==
    /\ req[r].pc = "upsert"
    /\ req' = [req EXCEPT ![r] = IdleRequest]
    /\ \E updateError \in {NoError, DbFailure} :
         IF UpdateErrorThrows(updateError)
         THEN /\ sent' = [Catch("Failed to update spaced repetition schedule")
                             EXCEPT !.itemError = req[r].itemError,
                                    !.updateError = updateError]
              /\ UNCHANGED <<spaced_items, reviews>>
         ELSE LET p    == PairOf(r)
                  rows == upsert(spaced_items[p], req[r].spacedItemData[1])
              IN  /\ spaced_items' = [spaced_items EXCEPT ![p] = rows]
                  /\ reviews' = [reviews EXCEPT ![p] = @ + 1]
                  /\ sent' = [NoResponse EXCEPT !.status = 200,
                                 !.spaced_item = single(rows).data,
                                 !.itemError = req[r].itemError,
                                 !.writes = 1]
    /\ UNCHANGED <<progress_logs, clock>>

\* the application logs a review: a new most recent row of progress_logs
LogProgress(p) ==
    /\ Logged < MaxLogged
    /\ \E e \in LoggedEvents :
         progress_logs' = [progress_logs EXCEPT ![p] = <<e>> \o @]
    /\ sent' = NoResponse
    /\ UNCHANGED <<spaced_items, req, clock, reviews>>

(***************************************************************************)
(* Study rooms (peer-study-rooms function, unnamed/part_001).  One room id *)
(* is modelled: generateRoomId() returns a fresh id, so create_room runs   *)
(* while no room has it.  Each user has at most one request under way; a   *)
(* handler runs from one await to the next without interruption, so there  *)
(* is one action per answer of the database.                               *)
(***************************************************************************)
RoomUsers == {"u1", "u2", "u3"}
RoomSizes == {2, 3}             \* the max_participants a create_room request asks for

NoRoom == [id |-> "", created_by |-> "", max_participants |-> 0,
           current_participants |-> 0, status |-> ""]

\* a request: where it stands, and the room row it read or built
IdleRoomRequest == [pc |-> "idle", room |-> NoRoom]

\* the requests under way
RoomsUnderWay == {u \in RoomUsers : roomReq[u].pc # "idle"}

\* the row of study_rooms built at part_001 169-178
roomDataOf(u, max_participants) ==
    [id |-> "room1", created_by |-> u, max_participants |-> max_participants,
     current_participants |-> 1, status |-> "waiting"]

\* create_room: the insert into study_rooms answers          (154-198)
CreateInsertRoom(u) ==
    /\ roomReq[u].pc = "idle"
    /\ study_rooms = NoRoom
    /\ \E max_participants \in RoomSizes, roomError \in BOOLEAN :
         IF roomError
         THEN UNCHANGED <<study_rooms, roomReq>>
         ELSE /\ study_rooms' = roomDataOf(u, max_participants)
              /\ roomReq' = [roomReq EXCEPT ![u] =
                                [pc |-> "create_add", room |-> roomDataOf(u, max_participants)]]
    /\ UNCHANGED room_participants

\* create_room: the insert into room_participants answers    (190-207)
CreateInsertParticipant(u) ==
    /\ roomReq[u].pc = "create_add"
    /\ room_participants' = room_participants \cup {u}
    /\ roomReq' = [roomReq EXCEPT ![u] = IdleRoomRequest]
    /\ UNCHANGED study_rooms

\* room.status === 'ended' || room.current_participants >= room.max_participants  (235)
RoomFullOrEnded(room) ==
    room.status = "ended" \/ room.current_participants >= room.max_participants

\* join_room: the select of the room answers                 (211-248)
JoinSelectRoom(u) ==
    /\ roomReq[u].pc = "idle"
    /\ LET room == study_rooms
       IN  IF room = NoRoom \/ RoomFullOrEnded(room)
           THEN UNCHANGED roomReq                      \* 404 or 403
           ELSE roomReq' = [roomReq EXCEPT ![u] = [pc |-> "join_check", room |-> room]]
    /\ UNCHANGED <<study_rooms, room_participants>>

\* join_room: the select of the user's participant row answers  (243-269)
JoinSelectParticipant(u) ==
    /\ roomReq[u].pc = "join_check"
    /\ LET existingParticipant == u \in room_participants
       IN  roomReq' = [roomReq EXCEPT ![u] =
               IF existingParticipant THEN IdleRoomRequest     \* "Already in room"
               ELSE [@ EXCEPT !.pc = "join_insert"]]
    /\ UNCHANGED <<study_rooms, room_participants>>

\* join_room: the insert into room_participants answers      (262-282)
JoinInsertParticipant(u) ==
    /\ roomReq[u].pc = "join_insert"
    /\ \E joinError \in BOOLEAN :
         IF joinError
         THEN /\ roomReq' = [roomReq EXCEPT ![u] = IdleRoomRequest]   \* throw
              /\ UNCHANGED room_participants
         ELSE /\ room_participants' = room_participants \cup {u}
              /\ roomReq' = [roomReq EXCEPT ![u] = [@ EXCEPT !.pc = "join_update"]]
    /\ UNCHANGED study_rooms

\* join_room: the update of the room's count answers         (276-291)
JoinUpdateRoom(u) ==
    /\ roomReq[u].pc = "join_update"
    /\ LET room == roomReq[u].room
       IN  study_rooms' =
               IF study_rooms = NoRoom THEN NoRoom
               ELSE [study_rooms EXCEPT
                        !.current_participants = room.current_participants + 1,
                        !.status = IF room.current_participants + 1 >= 2
                                   THEN "active" ELSE "waiting"]
    /\ roomReq' = [roomReq EXCEPT ![u] = IdleRoomRequest]
    /\ UNCHANGED room_participants

\* leave_room: the delete from room_participants answers     (295-321)
LeaveDeleteParticipant(u) ==
    /\ roomReq[u].pc = "idle"
    /\ \E leaveError \in BOOLEAN :
         IF leaveError
         THEN UNCHANGED <<room_participants, roomReq>>          \* throw
         ELSE /\ room_participants' = room_participants \ {u}
              /\ roomReq' = [roomReq EXCEPT ![u] = [@ EXCEPT !.pc = "leave_select"]]
    /\ UNCHANGED study_rooms

\* leave_room: the select of the room answers                (317-332)
LeaveSelectRoom(u) ==
    /\ roomReq[u].pc = "leave_select"
    /\ roomReq' = [roomReq EXCEPT ![u] =
           IF study_rooms = NoRoom THEN IdleRoomRequest
           ELSE [pc |-> "leave_update", room |-> study_rooms]]
    /\ UNCHANGED <<study_rooms, room_participants>>

\* leave_room: the update of the room answers                (323-341)
LeaveUpdateRoom(u) ==
    /\ roomReq[u].pc = "leave_update"
    /\ LET room == roomReq[u].room
       IN  study_rooms' =
               IF study_rooms = NoRoom THEN NoRoom
               ELSE IF room.current_participants <= 1
               THEN [study_rooms EXCEPT !.status = "ended"]
               ELSE [study_rooms EXCEPT
                        !.current_participants = room.current_participants - 1]
    /\ roomReq' = [roomReq EXCEPT ![u] = IdleRoomRequest]
    /\ UNCHANGED room_participants

InitRoomsIdle ==
    /\ study_rooms = NoRoom
    /\ room_participants = {}
    /\ roomReq = [u \in RoomUsers |-> IdleRoomRequest]

(***************************************************************************)
(* SyncManager (unnamed/part_003).  JavaScript runs a callback from one    *)
(* await to the next without interruption, so there is one action per      *)
(* promise that settles.  syncOfflineData is called by the 'online'        *)
(* listener and directly.                                                  *)
(***************************************************************************)
SyncCallers == {"online", "direct"}
OpIds       == {"op1"}
ActionIds   == {"a1", "a2"}
\* index.getAll('pending') returns the records in key order
OpOrder     == <<"op1">>
ActionOrder == <<"a1", "a2">>

IdleSyncRun == [pc |-> "idle", queue |-> << >>]

\* the syncOfflineData calls that are between their first and last statement
SyncRunning == {c \in SyncCallers : syncRun[c].pc # "idle"}

\* index.getAll('pending')                                    (part_003 211, 273)
RECURSIVE PendingOf(_, _)
PendingOf(order, store) ==
    IF order = << >> THEN << >>
    ELSE (IF store[Head(order)] = "pending" THEN <<Head(order)>> ELSE << >>)
             \o PendingOf(Tail(order), store)

\* OfflineStorageManager.addPendingSync                       (part_003 182-199)
AddPendingSync(o) ==
    /\ pendingSync[o] = "none"
    /\ pendingSync' = [pendingSync EXCEPT ![o] = "pending"]
    /\ UNCHANGED <<isSyncing, offlineActions, syncRun, syncStarted, syncLog,
                   delivered, resent>>

\* OfflineStorageManager.addOfflineAction                     (part_003 244-261)
AddOfflineAction(a) ==
    /\ offlineActions[a] = "none"
    /\ offlineActions' = [offlineActions EXCEPT ![a] = "pending"]
    /\ UNCHANGED <<isSyncing, pendingSync, syncRun, syncStarted, syncLog,
                   delivered, resent>>

\* SyncStart without the test of isSyncing
SyncStartUnguarded(c) ==
    /\ syncRun[c].pc = "idle"
    /\ syncStarted < MaxSyncRuns
    /\ isSyncing' = TRUE
    /\ syncRun' = [syncRun EXCEPT ![c] = [pc |-> "getPendingSync", queue |-> << >>]]
    /\ syncStarted' = syncStarted + 1
    /\ UNCHANGED <<pendingSync, offlineActions, syncLog, delivered, resent>>

\* syncOfflineData is called: if (this.isSyncing) return; this.isSyncing = true;
\* getPendingSync is called                                   (part_003 407-423)
SyncStart(c) ==
    /\ syncRun[c].pc = "idle"
    /\ syncStarted < MaxSyncRuns
    /\ IF isSyncing
       THEN UNCHANGED <<isSyncing, syncRun, syncStarted>>
       ELSE /\ isSyncing' = TRUE
            /\ syncRun' = [syncRun EXCEPT ![c] = [pc |-> "getPendingSync", queue |-> << >>]]
            /\ syncStarted' = syncStarted + 1
    /\ UNCHANGED <<pendingSync, offlineActions, syncLog, delivered, resent>>

\* the end of syncOfflineData: the last console message and
\* finally { this.isSyncing = false }                         (part_003 445-450)
SyncEnd(c, message) ==
    /\ isSyncing' = FALSE
    /\ syncLog' = message
    /\ syncRun' = [syncRun EXCEPT ![c] = IdleSyncRun]

\* the loop over pendingSync goes on with the operations left, or
\* getOfflineActions is called                                (part_003 424-434)
SyncOpsGoOn(c, queue) ==
    /\ syncRun' = [syncRun EXCEPT ![c] =
           [pc |-> IF queue = << >> THEN "getOfflineActions" ELSE "executeSyncOperation",
            queue |-> queue]]
    /\ UNCHANGED <<isSyncing, syncLog>>

\* the loop over offlineActions goes on with the actions left, or the run ends
\*                                                            (part_003 435-450)
SyncActionsGoOn(c, queue) ==
    IF queue = << >>
    THEN SyncEnd(c, "Offline data sync completed")
    ELSE /\ syncRun' = [syncRun EXCEPT ![c] =
                           [pc |-> "executeOfflineAction", queue |-> queue]]
         /\ UNCHANGED <<isSyncing, syncLog>>

\* getPendingSync settles                                     (part_003 202-216, 423)
GetPendingSync(c) ==
    /\ syncRun[c].pc = "getPendingSync"
    /\ \E rejected \in BOOLEAN :
         IF rejected THEN SyncEnd(c, "Sync failed")
         ELSE SyncOpsGoOn(c, PendingOf(OpOrder, pendingSync))
    /\ UNCHANGED <<pendingSync, offlineActions, syncStarted, delivered, resent>>

\* executeSyncOperation settles                               (part_003 425-430)
ExecuteSyncOperation(c) ==
    /\ syncRun[c].pc = "executeSyncOperation"
    /\ \E rejected \in BOOLEAN :
         IF rejected THEN SyncOpsGoOn(c, Tail(syncRun[c].queue))
         ELSE /\ syncRun' = [syncRun EXCEPT ![c] = [@ EXCEPT !.pc = "markSyncCompleted"]]
              /\ UNCHANGED <<isSyncing, syncLog>>
    /\ UNCHANGED <<pendingSync, offlineActions, syncStarted, delivered, resent>>

\* markSyncCompleted settles                                  (part_003 218-241, 427)
MarkSyncCompleted(c) ==
    /\ syncRun[c].pc = "markSyncCompleted"
    /\ \E rejected \in BOOLEAN :
         LET id == Head(syncRun[c].queue)
         IN  pendingSync' = IF rejected \/ pendingSync[id] = "none" THEN pendingSync
                            ELSE [pendingSync EXCEPT ![id] = "completed"]
    /\ SyncOpsGoOn(c, Tail(syncRun[c].queue))
    /\ UNCHANGED <<offlineActions, syncStarted, delivered, resent>>

\* getOfflineActions settles                                  (part_003 264-277, 434)
GetOfflineActions(c) ==
    /\ syncRun[c].pc = "getOfflineActions"
    /\ \E rejected \in BOOLEAN :
         IF rejected THEN SyncEnd(c, "Sync failed")
         ELSE SyncActionsGoOn(c, PendingOf(ActionOrder, offlineActions))
    /\ UNCHANGED <<pendingSync, offlineActions, syncStarted, delivered, resent>>

\* executeOfflineAction, the fetch of the action, settles     (part_003 436-442, 475-481)
ExecuteOfflineAction(c) ==
    /\ syncRun[c].pc = "executeOfflineAction"
    /\ LET id == Head(syncRun[c].queue)
       IN  /\ resent' = [resent EXCEPT ![id] = @ \/ delivered[id]]
           /\ \E rejected \in BOOLEAN :
                IF rejected
                THEN /\ SyncActionsGoOn(c, Tail(syncRun[c].queue))
                     /\ UNCHANGED delivered
                ELSE /\ delivered' = [delivered EXCEPT ![id] = TRUE]
                     /\ syncRun' = [syncRun EXCEPT ![c] =
                                       [@ EXCEPT !.pc = "markActionCompleted"]]
                     /\ UNCHANGED <<isSyncing, syncLog>>
    /\ UNCHANGED <<pendingSync, offlineActions, syncStarted>>

\* markActionCompleted settles: it only writes to the console (part_003 483-487)
MarkActionCompleted(c) ==
    /\ syncRun[c].pc = "markActionCompleted"
    /\ SyncActionsGoOn(c, Tail(syncRun[c].queue))
    /\ UNCHANGED <<pendingSync, offlineActions, syncStarted, delivered, resent>>

InitSyncIdle ==
    /\ isSyncing = FALSE
    /\ pendingSync = [o \in OpIds |-> "none"]
    /\ offlineActions = [a \in ActionIds |-> "none"]
    /\ syncRun = [c \in SyncCallers |-> IdleSyncRun]
    /\ syncStarted = 0
    /\ syncLog = ""
    /\ delivered = [a \in ActionIds |-> FALSE]
    /\ resent = [a \in ActionIds |-> FALSE]

(***************************************************************************)
(* findAvailableSlots (study-snapshots/index.ts 685-746).  Dates are whole *)
(* minutes counted from a fixed instant.  The function is followed step by *)
(* step: one action for the statements before the for loop, one for each   *)
(* event the loop takes up, and one for each test of a while loop.         *)
(***************************************************************************)
CalendarEvent(start, end) == [start |-> start, end |-> end]

\* the events of getExistingEvents for start_date 0 (index.ts 665-682), and others
EventLists == {<< >>,
               <<CalendarEvent(0, 60), CalendarEvent(480, 540)>>,
               <<CalendarEvent(30, 40)>>,
               <<CalendarEvent(20, 50), CalendarEvent(10, 30)>>,
               <<CalendarEvent(-20, -10), CalendarEvent(70, 80)>>}
SlotEnds   == {-30, 0, 45, 130, 600}
\* min_gap_minutes of the request body; 15 when it is left out (index.ts 568)
MinGaps    == {-15, 0, 15, 60, 90}

SlotInputs == {[startDate |-> 0, endDate |-> e, existingEvents |-> evs, minGapMinutes |-> g] :
                   e \in SlotEnds, evs \in EventLists, g \in MinGaps}

NoSlotInput == [startDate |-> 0, endDate |-> 0, existingEvents |-> << >>, minGapMinutes |-> 0]

\* existingEvents.sort((a, b) => new Date(a.start) - new Date(b.start)), a stable sort
RECURSIVE InsertByStart(_, _)
InsertByStart(e, sorted) ==
    IF sorted = << >> THEN <<e>>
    ELSE IF e.start < Head(sorted).start THEN <<e>> \o sorted
    ELSE <<Head(sorted)>> \o InsertByStart(e, Tail(sorted))

RECURSIVE SortByStart(_)
SortByStart(events) ==
    IF events = << >> THEN << >>
    ELSE InsertByStart(events[Len(events)], SortByStart(SubSeq(events, 1, Len(events) - 1)))

\* while (sortedEvents.length > 0 && new Date(sortedEvents[0].start) < currentTime) shift
RECURSIVE SkipBefore(_, _)
SkipBefore(events, time) ==
    IF events # << >> /\ Head(events).start < time THEN SkipBefore(Tail(events), time)
    ELSE events

MinInt(a, b) == IF a < b THEN a ELSE b
MaxInt(a, b) == IF a > b THEN a ELSE b

\* slots.push({start, end, duration})
PushSlot(slotDuration) ==
    /\ slots' = IF Len(slots) < MaxSlots
                THEN Append(slots, [start    |-> currentTime,
                                    end      |-> currentTime + slotDuration,
                                    duration |-> slotDuration])
                ELSE slots
    /\ pushed' = (pushed + 1) % (MaxSlots + 1)

\* the statements before the for loop                        (index.ts 686-698)
SlotsBegin ==
    /\ slotPc = "input"
    /\ currentTime' = slotIn.startDate
    /\ sortedEvents' = SkipBefore(SortByStart(slotIn.existingEvents), slotIn.startDate)
    /\ slots' = << >>
    /\ pushed' = 0
    /\ slotPc' = "events"
    /\ UNCHANGED <<slotIn, remainingGap>>

\* the for loop takes up its next event, or ends and the gap after the last
\* event is computed                                         (index.ts 701-712, 730-732)
SlotsNextEvent ==
    /\ slotPc = "events"
    /\ IF sortedEvents = << >>
       THEN /\ remainingGap' = slotIn.endDate - currentTime
            /\ slotPc' = IF remainingGap' >= slotIn.minGapMinutes THEN "tail" ELSE "done"
            /\ UNCHANGED <<sortedEvents, currentTime>>
       ELSE LET eventStart  == Head(sortedEvents).start
                eventEnd    == Head(sortedEvents).end
                gapDuration == eventStart - currentTime
            IN  IF eventStart > currentTime /\ gapDuration >= slotIn.minGapMinutes
                THEN /\ remainingGap' = gapDuration
                     /\ slotPc' = "gap"
                     /\ UNCHANGED <<sortedEvents, currentTime>>
                ELSE /\ currentTime' = MaxInt(currentTime, eventEnd)
                     /\ sortedEvents' = Tail(sortedEvents)
                     /\ UNCHANGED <<slotPc, remainingGap>>
    /\ UNCHANGED <<slotIn, slots, pushed>>

\* one test of  while (remainingGap >= minGapMinutes)  before an event, and
\* the body or the statement after the loop                  (index.ts 712-726)
SlotsGapStep ==
    /\ slotPc = "gap"
    /\ IF remainingGap >= slotIn.minGapMinutes
       THEN LET slotDuration == MinInt(remainingGap, 60)
            IN  /\ PushSlot(slotDuration)
                /\ remainingGap' = remainingGap - slotDuration
                /\ currentTime' = currentTime + slotDuration
                /\ UNCHANGED <<slotPc, sortedEvents>>
       ELSE /\ currentTime' = MaxInt(currentTime, Head(sortedEvents).end)
            /\ sortedEvents' = Tail(sortedEvents)
            /\ slotPc' = "events"
            /\ UNCHANGED <<remainingGap, slots, pushed>>
    /\ UNCHANGED slotIn

\* one test of  while (remaining >= minGapMinutes)  after the last event, and
\* the body or the return                                    (index.ts 731-745)
SlotsTailStep ==
    /\ slotPc = "tail"
    /\ IF remainingGap >= slotIn.minGapMinutes
       THEN LET slotDuration == MinInt(remainingGap, 60)
            IN  /\ PushSlot(slotDuration)
                /\ remainingGap' = remainingGap - slotDuration
                /\ currentTime' = currentTime + slotDuration
                /\ UNCHANGED slotPc
       ELSE /\ slotPc' = "done"
            /\ UNCHANGED <<remainingGap, currentTime, slots, pushed>>
    /\ UNCHANGED <<slotIn, sortedEvents>>

InitSlotsIdle ==
    /\ slotIn = NoSlotInput
    /\ slotPc = "idle"
    /\ sortedEvents = << >>
    /\ currentTime = 0
    /\ remainingGap = 0
    /\ slots = << >>
    /\ pushed = 0

InitAppIdle == InitRoomsIdle /\ InitSyncIdle /\ InitSlotsIdle

(***************************************************************************)
(* Initial states and specifications of the adaptive-srs function          *)
(***************************************************************************)
InitSrs ==
    /\ progress_logs = [p \in Pairs |-> << >>]
    /\ spaced_items  = [p \in Pairs |-> << >>]
    /\ req           = [r \in Requests |-> IdleRequest]
    /\ sent          = NoResponse
    /\ clock         = Epoch
    /\ reviews       = [p \in Pairs |-> 0]

NoResult == [interval_days |-> 0, ease_factor |-> Null]

InitPureIdle ==
    /\ hist = << >> /\ an = NoAnalysis /\ item = << >> /\ out = NoResult /\ phase = "idle"

Init == InitSrs /\ InitPureIdle /\ InitAppIdle

Next ==
    \/ \E r \in Requests : Refuse(r) /\ UNCHANGED <<pureVars, appVars>>
    \/ \E r \in Requests : FetchHistory(r) /\ UNCHANGED <<pureVars, appVars>>
    \/ \E r \in Requests : GetItem(r) /\ UNCHANGED <<pureVars, appVars>>
    \/ \E r \in Requests : Upsert(r) /\ UNCHANGED <<pureVars, appVars>>
    \/ \E p \in Pairs : LogProgress(p) /\ UNCHANGED <<pureVars, appVars>>

\* requests of any (user, concept) pairs, interleaved in every way
Spec == Init /\ [][Next]_vars

\* one request at a time: a request is received only when none is under way
NextSeq ==
    \/ \E r \in Requests : Refuse(r) /\ UnderWay = 0 /\ UNCHANGED <<pureVars, appVars>>
    \/ \E r \in Requests : FetchHistory(r) /\ UnderWay = 0 /\ UNCHANGED <<pureVars, appVars>>
    \/ \E r \in Requests : GetItem(r) /\ UNCHANGED <<pureVars, appVars>>
    \/ \E r \in Requests : Upsert(r) /\ UNCHANGED <<pureVars, appVars>>
    \/ \E p \in Pairs : LogProgress(p) /\ UNCHANGED <<pureVars, appVars>>

SpecSeq == Init /\ [][NextSeq]_vars

(***************************************************************************)
(* The functions run alone, on inputs drawn from grids                     *)
(***************************************************************************)
\* a row of spaced_items with the given interval_days
RowWith(days) ==
    [user_id       |-> "u1",
     concept_id    |-> "c1",
     concept_title |-> "algebra",
     next_review   |-> AddDays(Epoch, days),
     ease_factor   |-> Q(25, 10),
     interval_days |-> days,
     repetitions   |-> 1,
     last_reviewed |-> Epoch]

ScoreGrid == {Q(-1, 1), I(0), Q(1, 10), Q(2, 10), Q(39, 100), Q(4, 10), Q(5, 10),
              Q(59, 100), Q(6, 10), Q(7, 10), Q(79, 100), Q(8, 10), Q(95, 100),
              I(1), Q(3, 2), I(3)}
TrendGrid == {"improving", "declining", "stable", "neutral"}
TimeEfficiencyGrid == {I(0), Q(1, 10), Q(1, 2), Q(8, 10), I(1), Q(12, 10), Q(3, 2), I(2), I(5)}
\* performance_variance 0, 0.05, 0.1, 0.2, 0.3, 0.4, 0.5
VarianceGrid == {Sqrt(I(0)), Sqrt(Q(1, 400)), Sqrt(Q(1, 100)), Sqrt(Q(1, 25)),
                 Sqrt(Q(9, 100)), Sqrt(Q(4, 25)), Sqrt(Q(1, 4))}
IntervalGrid == {-5, 0, 1, 2, 5, 10, 29, 30, 31, 1000}

AnalysisInputs ==
    {[overall_score        |-> p,
      confidence_trend     |-> t,
      time_efficiency      |-> te,
      recent_correctness   |-> Q(1, 2),
      average_confidence   |-> I(3),
      performance_variance |-> v] :
        p \in ScoreGrid, t \in TrendGrid, te \in TimeEfficiencyGrid, v \in VarianceGrid}

\* a row with the given interval_days whose other columns differ from RowWith's
OtherRowWith(days) ==
    [RowWith(days) EXCEPT !.ease_factor   = Q(13, 10),
                          !.repetitions   = 7,
                          !.last_reviewed = AddDays(Epoch, 3),
                          !.next_review   = AddDays(Epoch, 4)]

ItemInputs == {<< >>} \cup {<<RowWith(k)>> : k \in IntervalGrid}
                      \cup {<<OtherRowWith(k)>> : k \in {10, 30}}

HistoryInputs == UNION {[1..n -> AnalyzeEvents] : n \in 0..MaxEvents}

\* Analyze taking the recent events with splice(0, 5), which removes them
\* from the caller's array
AnalyzeInPlace ==
    /\ phase = "input"
    /\ an' = analyzePerformance(hist)
    /\ hist' = SliceFrom(hist, RecentWindow)
    /\ phase' = "analyzed"
    /\ UNCHANGED <<item, out>>

\* analyzePerformance is applied to hist
Analyze ==
    /\ phase = "input"
    /\ an' = analyzePerformance(hist)
    /\ phase' = "analyzed"
    /\ UNCHANGED <<hist, item, out>>

\* calculateAdaptiveInterval and calculateEaseFactor are applied to an and item
Schedule ==
    /\ phase = "analyzed"
    /\ out' = [interval_days |-> calculateAdaptiveInterval(an, item),
               ease_factor   |-> calculateEaseFactor(an)]
    /\ phase' = "scheduled"
    /\ UNCHANGED <<hist, an, item>>

InitSchedule ==
    /\ InitSrs /\ InitAppIdle
    /\ hist = << >> /\ an \in AnalysisInputs /\ item \in ItemInputs
    /\ out = NoResult /\ phase = "analyzed"

NextSchedule == Schedule /\ UNCHANGED <<srsVars, appVars>>

\* the scheduler on every analysis and previous row of the grids
SpecSchedule == InitSchedule /\ [][NextSchedule]_vars

InitAnalyze ==
    /\ InitSrs /\ InitAppIdle
    /\ hist \in HistoryInputs /\ an = NoAnalysis
    /\ item \in {<< >>, <<RowWith(30)>>}
    /\ out = NoResult /\ phase = "input"

NextAnalyze ==
    \/ Analyze /\ UNCHANGED <<srsVars, appVars>>
    \/ Schedule /\ UNCHANGED <<srsVars, appVars>>

\* the analyzer, then the scheduler, on every history of the grid
SpecAnalyze == InitAnalyze /\ [][NextAnalyze]_vars

(***************************************************************************)
(* Specifications of the study rooms                                       *)
(***************************************************************************)
InitRooms == InitSrs /\ InitPureIdle /\ InitAppIdle

\* create_room and join_room requests of distinct users, interleaved in every way
NextRoomJoins ==
    \/ \E u \in RoomUsers : CreateInsertRoom(u) /\ UNCHANGED <<srsVars, pureVars, syncVars, slotVars>>
    \/ \E u \in RoomUsers : CreateInsertParticipant(u) /\ UNCHANGED <<srsVars, pureVars, syncVars, slotVars>>
    \/ \E u \in RoomUsers : JoinSelectRoom(u) /\ UNCHANGED <<srsVars, pureVars, syncVars, slotVars>>
    \/ \E u \in RoomUsers : JoinSelectParticipant(u) /\ UNCHANGED <<srsVars, pureVars, syncVars, slotVars>>
    \/ \E u \in RoomUsers : JoinInsertParticipant(u) /\ UNCHANGED <<srsVars, pureVars, syncVars, slotVars>>
    \/ \E u \in RoomUsers : JoinUpdateRoom(u) /\ UNCHANGED <<srsVars, pureVars, syncVars, slotVars>>

SpecRoomJoins == InitRooms /\ [][NextRoomJoins]_vars

\* create_room, join_room and leave_room requests, one at a time: a request
\* is received only when none is under way
NextRoomsSeq ==
    \/ \E u \in RoomUsers : CreateInsertRoom(u) /\ RoomsUnderWay = {}
                            /\ UNCHANGED <<srsVars, pureVars, syncVars, slotVars>>
    \/ \E u \in RoomUsers : CreateInsertParticipant(u) /\ UNCHANGED <<srsVars, pureVars, syncVars, slotVars>>
    \/ \E u \in RoomUsers : JoinSelectRoom(u) /\ RoomsUnderWay = {}
                            /\ UNCHANGED <<srsVars, pureVars, syncVars, slotVars>>
    \/ \E u \in RoomUsers : JoinSelectParticipant(u) /\ UNCHANGED <<srsVars, pureVars, syncVars, slotVars>>
    \/ \E u \in RoomUsers : JoinInsertParticipant(u) /\ UNCHANGED <<srsVars, pureVars, syncVars, slotVars>>
    \/ \E u \in RoomUsers : JoinUpdateRoom(u) /\ UNCHANGED <<srsVars, pureVars, syncVars, slotVars>>
    \/ \E u \in RoomUsers : LeaveDeleteParticipant(u) /\ RoomsUnderWay = {}
                            /\ UNCHANGED <<srsVars, pureVars, syncVars, slotVars>>
    \/ \E u \in RoomUsers : LeaveSelectRoom(u) /\ UNCHANGED <<srsVars, pureVars, syncVars, slotVars>>
    \/ \E u \in RoomUsers : LeaveUpdateRoom(u) /\ UNCHANGED <<srsVars, pureVars, syncVars, slotVars>>

SpecRoomsSeq == InitRooms /\ [][NextRoomsSeq]_vars

(***************************************************************************)
(* Specification of the SyncManager                                        *)
(***************************************************************************)
NextSync ==
    \/ \E o \in OpIds : AddPendingSync(o) /\ UNCHANGED <<srsVars, pureVars, roomVars, slotVars>>
    \/ \E a \in ActionIds : AddOfflineAction(a) /\ UNCHANGED <<srsVars, pureVars, roomVars, slotVars>>
    \/ \E c \in SyncCallers : SyncStart(c) /\ UNCHANGED <<srsVars, pureVars, roomVars, slotVars>>
    \/ \E c \in SyncCallers : GetPendingSync(c) /\ UNCHANGED <<srsVars, pureVars, roomVars, slotVars>>
    \/ \E c \in SyncCallers : ExecuteSyncOperation(c) /\ UNCHANGED <<srsVars, pureVars, roomVars, slotVars>>
    \/ \E c \in SyncCallers : MarkSyncCompleted(c) /\ UNCHANGED <<srsVars, pureVars, roomVars, slotVars>>
    \/ \E c \in SyncCallers : GetOfflineActions(c) /\ UNCHANGED <<srsVars, pureVars, roomVars, slotVars>>
    \/ \E c \in SyncCallers : ExecuteOfflineAction(c) /\ UNCHANGED <<srsVars, pureVars, roomVars, slotVars>>
    \/ \E c \in SyncCallers : MarkActionCompleted(c) /\ UNCHANGED <<srsVars, pureVars, roomVars, slotVars>>

\* records added, 'online' events and direct calls, interleaved in every way
SpecSync == InitRooms /\ [][NextSync]_vars

(***************************************************************************)
(* Specification of findAvailableSlots: every request of the grid, and the *)
(* function, once called, keeps taking steps until it returns              *)
(***************************************************************************)
InitSlots ==
    /\ InitSrs /\ InitPureIdle /\ InitRoomsIdle /\ InitSyncIdle
    /\ slotIn \in SlotInputs
    /\ slotPc = "input"
    /\ sortedEvents = << >>
    /\ currentTime = 0
    /\ remainingGap = 0
    /\ slots = << >>
    /\ pushed = 0

NextSlots ==
    \/ SlotsBegin /\ UNCHANGED <<srsVars, pureVars, roomVars, syncVars>>
    \/ SlotsNextEvent /\ UNCHANGED <<srsVars, pureVars, roomVars, syncVars>>
    \/ SlotsGapStep /\ UNCHANGED <<srsVars, pureVars, roomVars, syncVars>>
    \/ SlotsTailStep /\ UNCHANGED <<srsVars, pureVars, roomVars, syncVars>>

SpecSlots == InitSlots /\ [][NextSlots]_vars /\ WF_vars(NextSlots)

(***************************************************************************)
(* Properties                                                              *)
(***************************************************************************)
\* rows[1].repetitions of the stored schedule, 0 when there is none
Reps(rows) == IF rows = << >> THEN 0 ELSE rows[1].repetitions

\* C1: for every analysis and every previous row (or none), the interval_days
\* the scheduler returns is an integer from 1 to 30.
C1_IntervalInRange ==
    phase = "scheduled" => out.interval_days \in 1..30

\* C1 witness: a previous interval of 30 whose new value rounds above 30 and is held at 30
C1_Witness ==
    /\ phase = "scheduled"
    /\ item # << >> /\ item[1].interval_days = 30
    /\ Round(newIntervalOf(an, item)) > 30
    /\ out.interval_days = 30

\* C2: for every analysis (any overall_score, any confidence_trend) the
\* ease_factor the scheduler returns lies between 1.3 and 3.0.
C2_EaseInRange ==
    phase = "scheduled" =>
        /\ Ge(out.ease_factor, Q(13, 10))
        /\ Le(out.ease_factor, I(3))

\* C2 witness: a score above 1 with an improving trend, held at 3.0
C2_Witness ==
    /\ phase = "scheduled"
    /\ an.overall_score = Q(3, 2)
    /\ an.confidence_trend = "improving"
    /\ out.ease_factor = I(3)

\* C3: for every non-empty history of well-formed events, the overall_score
\* that analyzePerformance returns lies between 0.1 and 1.0.
C3_ScoreInRange ==
    (phase \in {"analyzed", "scheduled"} /\ Len(hist) > 0 /\ AllWellFormed(hist)) =>
        /\ Ge(an.overall_score, Q(1, 10))
        /\ Le(an.overall_score, I(1))

\* C3 witness: a well-formed history whose weighted sum is below 0.1
C3_Witness ==
    /\ phase = "analyzed"
    /\ hist = <<EvBad, EvBad>>
    /\ an.overall_score = Q(1, 10)

\* C4: with requests handled one after the other, the stored repetitions of
\* every pair equals the number of successful reviews of that pair, starting
\* from no stored schedule.
C4_RepetitionsCountReviews ==
    \A p \in Pairs : Reps(spaced_items[p]) = reviews[p]

\* C4 witness: the third successful review of a pair has been written
C4_Witness ==
    \E p \in Pairs : reviews[p] = 3 /\ Reps(spaced_items[p]) = 3

\* C5: the stored repetitions of a pair never decreases, under any
\* interleaving of review submissions.
C5_RepetitionsNeverDecrease ==
    [][\A p \in Pairs : Reps(spaced_items'[p]) >= Reps(spaced_items[p])]_vars

\* C6: a request that read the schedule before another request's upsert does
\* not overwrite it: every successful upsert writes a row computed from the
\* schedule that is stored when it is written.
C6_NoStaleOverwrite ==
    [][\A r \in Requests :
          (req[r].pc = "upsert" /\ req'[r].pc = "idle" /\ sent'.status = 200)
              => req[r].currentItem = spaced_items[PairOf(r)]]_vars

\* C7: in every stored schedule next_review is exactly interval_days days
\* after last_reviewed.
C7_NextReviewAfterLastReviewed ==
    \A p \in Pairs :
        spaced_items[p] # << >> =>
            spaced_items[p][1].next_review =
                AddDays(spaced_items[p][1].last_reviewed, spaced_items[p][1].interval_days)

\* C8: with requests handled one after the other, a request about to write
\* has read the schedule that the call before it wrote: its repetitions and
\* interval_days are computed from the stored row, not from an earlier one.
C8_SecondCallUsesFirstWrite ==
    \A r \in Requests :
        req[r].pc = "upsert" =>
            /\ req[r].currentItem = spaced_items[PairOf(r)]
            /\ req[r].spacedItemData[1].repetitions = Reps(spaced_items[PairOf(r)]) + 1
            /\ req[r].spacedItemData[1].interval_days =
                   calculateAdaptiveInterval(req[r].analysis, spaced_items[PairOf(r)])

\* C8 witness: the second call has read the first call's row (repetitions 1,
\* interval_days above 1) and computed a longer interval from it
C8_Witness ==
    \E r \in Requests :
        /\ req[r].pc = "upsert"
        /\ req[r].currentItem # << >>
        /\ req[r].currentItem[1].repetitions = 1
        /\ req[r].currentItem[1].interval_days > 1
        /\ req[r].spacedItemData[1].repetitions = 2
        /\ req[r].spacedItemData[1].interval_days > req[r].currentItem[1].interval_days

\* C9: a history holding an event with a field outside its domain is
\* rejected before any computation: no analysis is produced from it and no
\* interval is scheduled from it.
C9_MalformedHistoryRejected ==
    phase \in {"analyzed", "scheduled"} => AllWellFormed(hist)

\* C10: when the history fetch or the schedule get fails (other than no row
\* found), the request ends with a failure, is not continued, and the step
\* leaves every stored schedule as it was.
C10_FailureWritesNothing ==
    [][/\ \A r \in Requests : req'[r].pc = "upsert" => req'[r].itemError # DbFailure
       /\ (sent'.perfError # NoError \/ sent'.itemError = DbFailure) =>
              /\ sent'.status = 500
              /\ sent'.writes = 0
              /\ spaced_items' = spaced_items
              /\ \A r \in Requests : req'[r] # req[r] => req'[r].pc = "idle"]_vars

\* C10 witness: a schedule get has failed while a schedule is stored, and the
\* failure has been answered
C10_Witness ==
    /\ sent.status = 500
    /\ sent.itemError = DbFailure
    /\ \E p \in Pairs : spaced_items[p] # << >>

\* C11: when a collaborator call (history fetch, schedule get, schedule
\* upsert) fails, the failure sent to the caller carries the message of the
\* error the collaborator reported, unchanged.
C11_FailureCarriesOriginalMessage ==
    /\ PerfErrorThrows(sent.perfError)     => sent.error = sent.perfError.message
    /\ ItemErrorThrows(sent.itemError)     => sent.error = sent.itemError.message
    /\ UpdateErrorThrows(sent.updateError) => sent.error = sent.updateError.message

\* C12: analyzePerformance on an empty history returns exactly the defaults
\* overall_score 0.5, confidence_trend stable, time_efficiency 1.0,
\* recent_correctness 0.5, average_confidence 3, performance_variance 0.
C12_EmptyHistoryDefaults ==
    (phase \in {"analyzed", "scheduled"} /\ hist = << >>) =>
        an = [overall_score        |-> Q(1, 2),
              confidence_trend     |-> "stable",
              time_efficiency      |-> I(1),
              recent_correctness   |-> Q(1, 2),
              average_confidence   |-> I(3),
              performance_variance |-> Sqrt(I(0))]

\* C13: cold start: with an empty history and no previous schedule the
\* review produces interval_days 1 and ease_factor 2.5.
C13_ColdStart ==
    (phase = "scheduled" /\ hist = << >> /\ item = << >>) =>
        /\ out.interval_days = 1
        /\ out.ease_factor = Q(25, 10)

\* C13 witness: the cold start has been scheduled; the interval before
\* rounding is 1 * 1.05 * 1.1 * 1.0 = 1.155
C13_Witness ==
    /\ phase = "scheduled" /\ hist = << >> /\ item = << >>
    /\ an.overall_score = Q(1, 2)
    /\ newIntervalOf(an, item) = Q(1155, 1000)
    /\ out = [interval_days |-> 1, ease_factor |-> Q(25, 10)]

\* C14: for every analysis in its domain and every previous interval base
\* from 1 to 30, interval_days equals
\*   round(clamp(T(p, base) * trend * variance * clamp(time_efficiency, 0.8, 1.5), 1, 30))
\* with T the tier table  p >= 0.8: base(2.5 + (p - 0.8)2);
\* 0.6 <= p < 0.8: base(1.5 + (p - 0.6)1.5);  0.4 <= p < 0.6: base(1.0 + (p - 0.4)0.5);
\* p < 0.4: max(1, base(0.5 + 0.5p)),  trend 1.2 / 0.8 / 1.0, variance 0.7 above
\* 0.3 and 1.1 below 0.1, and no cap before the final clamp.
C14_IntervalFormula ==
    (/\ phase = "scheduled"
     /\ item # << >> /\ item[1].interval_days \in 1..30
     /\ Ge(an.overall_score, Q(1, 10)) /\ Le(an.overall_score, I(1))
     /\ Ge(an.time_efficiency, Q(1, 10)) /\ Le(an.time_efficiency, I(2))) =>
        LET p    == an.overall_score
            base == I(item[1].interval_days)
            T    == IF Ge(p, Q(8, 10))
                    THEN Mul(base, Add(Q(5, 2), Mul(Sub(p, Q(4, 5)), I(2))))
                    ELSE IF Ge(p, Q(6, 10))
                    THEN Mul(base, Add(Q(3, 2), Mul(Sub(p, Q(3, 5)), Q(3, 2))))
                    ELSE IF Ge(p, Q(4, 10))
                    THEN Mul(base, Add(I(1), Mul(Sub(p, Q(2, 5)), Q(1, 2))))
                    ELSE Max(I(1), Mul(base, Add(Q(1, 2), Mul(Q(1, 2), p))))
            trend    == IF an.confidence_trend = "improving" THEN Q(6, 5)
                        ELSE IF an.confidence_trend = "declining" THEN Q(4, 5)
                        ELSE I(1)
            variance == IF Gt(an.performance_variance.sq, Q(9, 100)) THEN Q(7, 10)
                        ELSE IF Lt(an.performance_variance.sq, Q(1, 100)) THEN Q(11, 10)
                        ELSE I(1)
            te       == Max(Q(4, 5), Min(Q(3, 2), an.time_efficiency))
            result   == Mul(Mul(Mul(T, trend), variance), te)
        IN  out.interval_days = Round(Max(I(1), Min(I(30), result)))

\* C15: for every overall_score p and trend, whatever the previous schedule,
\* ease_factor equals clamp(E(p) + d, 1.3, 3.0) with E(p) = 2.8 + (p - 0.8)0.5
\* for p >= 0.8, 2.5 + (p - 0.6)0.3 for 0.6 <= p < 0.8, 2.5 for 0.4 <= p < 0.6,
\* max(1.3, 2.5 - (0.4 - p)2) for p < 0.4, and d = +0.1 if improving, -0.1 if
\* declining, 0 otherwise.
C15_EaseFormula ==
    phase = "scheduled" =>
        LET p == an.overall_score
            E == IF Ge(p, Q(4, 5)) THEN Add(Q(14, 5), Mul(Sub(p, Q(4, 5)), Q(1, 2)))
                 ELSE IF Ge(p, Q(3, 5)) THEN Add(Q(5, 2), Mul(Sub(p, Q(3, 5)), Q(3, 10)))
                 ELSE IF Ge(p, Q(2, 5)) THEN Q(5, 2)
                 ELSE Max(Q(13, 10), Sub(Q(5, 2), Mul(Sub(Q(2, 5), p), I(2))))
            d == IF an.confidence_trend = "improving" THEN Q(1, 10)
                 ELSE IF an.confidence_trend = "declining" THEN Q(-1, 10)
                 ELSE I(0)
        IN  out.ease_factor = Max(Q(13, 10), Min(I(3), Add(E, d)))

\* C15 witness: the boundary score 0.8 with a declining trend and a previous
\* schedule of 30 days gives 2.8 - 0.1 = 2.7
C15_Witness ==
    /\ phase = "scheduled"
    /\ an.overall_score = Q(4, 5) /\ an.confidence_trend = "declining"
    /\ item # << >> /\ item[1].interval_days = 30
    /\ out.ease_factor = Q(27, 10)

\* C16: mastery run: with overall_score 0.95, an improving trend,
\* performance_variance 0.05 and a previous interval of 10 days, for every
\* time_efficiency from 0.1 to 2.0 interval_days equals
\* round(clamp(10 * 2.8 * 1.2 * 1.1 * clamp(time_efficiency, 0.8, 1.5), 1, 30)).
C16_MasteryRun ==
    (/\ phase = "scheduled"
     /\ an.overall_score = Q(95, 100)
     /\ an.confidence_trend = "improving"
     /\ an.performance_variance = Sqrt(Q(1, 400))
     /\ item # << >> /\ item[1].interval_days = 10
     /\ Ge(an.time_efficiency, Q(1, 10)) /\ Le(an.time_efficiency, I(2))) =>
        LET te      == Max(Q(4, 5), Min(Q(3, 2), an.time_efficiency))
            product == Mul(Mul(Mul(Mul(I(10), Q(14, 5)), Q(6, 5)), Q(11, 10)), te)
        IN  out.interval_days = Round(Max(I(1), Min(I(30), product)))

\* C16 witness: the mastery run at time_efficiency 0.1, held at 0.8:
\* 36.96 * 0.8 = 29.568, rounded to 30
C16_Witness ==
    /\ phase = "scheduled"
    /\ an.overall_score = Q(95, 100)
    /\ an.confidence_trend = "improving"
    /\ an.performance_variance = Sqrt(Q(1, 400))
    /\ item # << >> /\ item[1].interval_days = 10
    /\ an.time_efficiency = Q(1, 10)
    /\ newIntervalOf(an, item) = Q(29568, 1000)
    /\ out.interval_days = 30

\* C17: monotonicity: with confidence_trend, performance_variance,
\* time_efficiency, the recent confidence and the previous interval held
\* fixed, a larger recent_correctness never yields a smaller interval_days:
\* the interval scheduled from the analysis of a history is at most the one
\* scheduled with any larger recent_correctness, and at least the one
\* scheduled with any smaller recent_correctness (steps of 0.05 from 0 to 1).
C17_MonotoneInCorrectness ==
    (phase = "scheduled" /\ Len(hist) > 0 /\ AllWellFormed(hist)) =>
        \A k \in 0..20 :
            LET rc  == Q(k, 20)
                an2 == [an EXCEPT !.recent_correctness = rc,
                                  !.overall_score =
                                      ClampScore(overallScoreOf(rc, an.average_confidence,
                                                                an.time_efficiency))]
                days == calculateAdaptiveInterval(an2, item)
            IN  /\ Ge(rc, an.recent_correctness) => days >= out.interval_days
                /\ Le(rc, an.recent_correctness) => days <= out.interval_days

C19_OneScheduleReplacedWhole ==
    [][/\ \A p \in Pairs : Len(spaced_items'[p]) <= 1
       /\ \A p \in Pairs : spaced_items[p] # << >> => spaced_items'[p] # << >>
       /\ \A r \in Requests :
            (req[r].pc = "upsert" /\ req'[r].pc = "idle" /\ sent'.status = 200) =>
                spaced_items'[<<req[r].user_id, req[r].concept_id>>] = req[r].spacedItemData]_vars

\* C19 witness: the second review of a pair has replaced the row of the
\* first: one row, with the new repetitions and a later last_reviewed
C19_Witness ==
    \E p \in Pairs :
        /\ reviews[p] = 2
        /\ Len(spaced_items[p]) = 1
        /\ spaced_items[p][1].repetitions = 2
        /\ spaced_items[p][1].last_reviewed # Epoch
        /\ sent.status = 200 /\ sent.spaced_item = spaced_items[p]

\* C20: a review for (user U, concept C) reads only U/C's history and
\* schedule and leaves the schedule of every other (user, concept) pair
\* unchanged, under any interleaving of requests: the history it analyses is
\* the one logged for U/C, the row it computes from is the one stored for
\* U/C, its upsert changes no other pair's rows, and no other step changes
\* any schedule.
C20_OtherPairsUntouched ==
    [][/\ \A r \in Requests :
            LET own == <<req'[r].user_id, req'[r].concept_id>>
            IN  /\ (req[r].pc = "idle" /\ req'[r].pc = "get") =>
                       req'[r].performanceHistory = Limit(progress_logs[own], HistoryLimit)
                /\ (req[r].pc = "get" /\ req'[r].pc = "upsert") =>
                       req'[r].currentItem = single(spaced_items[own]).data
       /\ \A p \in Pairs :
            spaced_items'[p] # spaced_items[p] =>
                \E r \in Requests :
                    /\ req[r].pc = "upsert" /\ req'[r].pc = "idle"
                    /\ p = <<req[r].user_id, req[r].concept_id>>]_vars

\* C20 witness: while a request of one user, who has a stored schedule, is
\* about to write, a review of the other user has been written
C20_Witness ==
    \E r \in Requests :
        /\ req[r].pc = "upsert"
        /\ spaced_items[<<req[r].user_id, req[r].concept_id>>] # << >>
        /\ sent.status = 200 /\ sent.spaced_item # << >>
        /\ sent.spaced_item[1].user_id # req[r].user_id

\* C21: confidence_trend is improving exactly when the mean confidence_after
\* (3 when absent) of the first 5 events is greater than the mean over the
\* remaining events, declining exactly when it is smaller, and stable
\* otherwise; every history of 1 to 5 events yields stable.
C21_TrendFromRecentAndOlder ==
    (phase \in {"analyzed", "scheduled"} /\ Len(hist) > 0) =>
        LET n          == Len(hist)
            conf(i)    == OrElse(hist[i].confidence_after, I(3))
            recentMean == Div(Sum([i \in 1..5 |-> conf(i)]), I(5))
            olderMean  == Div(Sum([i \in 1..(n - 5) |-> conf(i + 5)]), I(n - 5))
        IN  IF n <= 5
            THEN an.confidence_trend = "stable"
            ELSE /\ an.confidence_trend = "improving" <=> Gt(recentMean, olderMean)
                 /\ an.confidence_trend = "declining" <=> Lt(recentMean, olderMean)
                 /\ an.confidence_trend = "stable"    <=> recentMean = olderMean

\* C21 witness: six events, the five recent ones with confidence 1 and the
\* older one with confidence 5: declining
C21_Witness ==
    /\ phase = "analyzed"
    /\ hist = <<EvBad, EvBad, EvBad, EvBad, EvBad, EvGood>>
    /\ an.confidence_trend = "declining"

\* C22: events after the fifth most recent one influence only
\* confidence_trend and performance_variance: overall_score,
\* recent_correctness, time_efficiency and average_confidence are those of
\* the first 5 events alone, and performance_variance is the population
\* standard deviation of correctness (0 when absent) over the whole history.
C22_OlderEventsFrame ==
    (phase \in {"analyzed", "scheduled"} /\ Len(hist) > 0) =>
        LET n      == Len(hist)
            first5 == IF n <= 5 THEN hist ELSE SubSeq(hist, 1, 5)
            an5    == analyzePerformance(first5)
            c(i)   == OrElse(hist[i].correctness, I(0))
            mean   == Div(Sum([i \in 1..n |-> c(i)]), I(n))
            popVar == Div(Sum([i \in 1..n |-> Mul(Sub(c(i), mean), Sub(c(i), mean))]), I(n))
        IN  /\ an.overall_score      = an5.overall_score
            /\ an.recent_correctness = an5.recent_correctness
            /\ an.time_efficiency    = an5.time_efficiency
            /\ an.average_confidence = an5.average_confidence
            /\ an.performance_variance = Sqrt(popVar)

\* C22 witness: five events with correctness 1 followed by an older one with
\* correctness 0: recent_correctness 1, variance 5/36 over the six
C22_Witness ==
    /\ phase = "analyzed"
    /\ hist = <<EvGood, EvGood, EvGood, EvGood, EvGood, EvBad>>
    /\ an.recent_correctness = I(1)
    /\ an.overall_score = I(1)
    /\ an.performance_variance = Sqrt(Q(5, 36))

\* C23: poor performance decreases the interval: whenever overall_score is
\* below 0.4, the new interval_days is not greater than the previous
\* interval_days (1 to 30), for every trend, variance and time_efficiency.
C23_PoorPerformanceNoLonger ==
    (/\ phase = "scheduled"
     /\ item # << >> /\ item[1].interval_days \in 1..30
     /\ Ge(an.overall_score, Q(1, 10)) /\ Lt(an.overall_score, Q(4, 10))
     /\ Ge(an.time_efficiency, Q(1, 10)) /\ Le(an.time_efficiency, I(2))) =>
        out.interval_days <= item[1].interval_days

\* C24: the new interval_days and ease_factor depend on the previous schedule
\* only through its interval_days: whatever its ease_factor, repetitions,
\* last_reviewed and next_review, the result is the one computed from a row
\* with the same interval_days and fixed other columns.
C24_OnlyPreviousInterval ==
    (phase = "scheduled" /\ item # << >>) =>
        /\ out.interval_days =
               calculateAdaptiveInterval(an, <<RowWith(item[1].interval_days)>>)
        /\ out.ease_factor = calculateEaseFactor(an)

\* C24 witness: a previous row of 10 days with ease_factor 1.3, repetitions 7
\* and other dates has been scheduled from, with a result other than 7-based
C24_Witness ==
    /\ phase = "scheduled"
    /\ item = <<OtherRowWith(10)>>
    /\ an.overall_score = Q(1, 2) /\ an.confidence_trend = "stable"
    /\ an.performance_variance = Sqrt(Q(1, 25)) /\ an.time_efficiency = I(1)
    /\ out.interval_days = 11
    /\ out.ease_factor = Q(25, 10)

C26_RoomNeverOverfull ==
    study_rooms # NoRoom =>
        /\ study_rooms.current_participants <= study_rooms.max_participants
        /\ Cardinality(room_participants) <= study_rooms.max_participants

\* C27: for every room whose status is not ended, once every request has
\* been answered, current_participants equals the number of
\* room_participants rows, after any sequence of create_room, join_room and
\* leave_room requests.
C27_CountMatchesRows ==
    (study_rooms # NoRoom /\ study_rooms.status # "ended" /\ RoomsUnderWay = {}) =>
        study_rooms.current_participants = Cardinality(room_participants)

\* C28: at most one syncOfflineData run is in progress at any time, however
\* 'online' events and direct calls interleave, and isSyncing is false
\* whenever no run is in progress, also after a run in which a storage read
\* or a network request failed.
C28_OneSyncRun ==
    /\ Cardinality(SyncRunning) <= 1
    /\ SyncRunning = {} => isSyncing = FALSE
    /\ SyncRunning # {} => isSyncing = TRUE

\* C28 witness: the second run has ended on a failed storage read, with an
\* action still pending, and isSyncing is false again
C28_Witness ==
    /\ syncStarted = 2
    /\ SyncRunning = {}
    /\ syncLog = "Sync failed"
    /\ isSyncing = FALSE
    /\ \E a \in ActionIds : offlineActions[a] = "pending"

C30_SlotsTerminate ==
    /\ <>(slotPc = "done")
    /\ [](\A i \in 1..Len(slots) : slots[i].duration <= 60)

====
